---- MODULE Spec2Model ----
(***************************************************************************)
(* A model of bast (src/main.rs): the RESP codec (parse_expression and its *)
(* helpers, RESPValueIndices::to_value, RESPCodec::decode / encode) and    *)
(* the GET/SET dispatcher (handle_request) run by handle_connection.       *)
(*                                                                         *)
(* Bytes are naturals 0..255, buffers are sequences of bytes.  Offsets are *)
(* 0-based as in the source: At(buf, i) is buf[i], Slice(buf, s, e) is     *)
(* buf[s..e].  A Rust panic (slice out of range, split_to past the end) is *)
(* an outcome of its own, "panic".                                         *)
(***************************************************************************)
EXTENDS Integers, Sequences, FiniteSets, TLC

VARIABLES
    buf,    \* the accumulation buffer of the connection's codec (BytesMut)
    pre,    \* the buffer as it was when the last decode was entered
    res,    \* the outcome of the last decode, "idle" when bytes came in since
    n,      \* number of chunks appended / values encoded so far
    enc,    \* the last encode: the item, the result, dst before and after
    cmp,    \* one-shot against two-chunk decoding of the bytes received
    store,  \* handle_connection's map: HashMap<String, RESPValue>
    hist,   \* the commands handle_request was called with, in order
    resp,   \* what the last loop iteration made of its frame
    sent,   \* the responses written to the socket, in order
    open,   \* the connection's task is running its loop
    inp,    \* the frames the client has sent on the connection, in order
    conns,  \* two concurrent connections: each task's buffer and progress
    stores  \* two concurrent connections: each task's map

connvars == <<store, hist, resp, sent, open>>

twovars == <<conns, stores>>

vars == <<buf, pre, res, n, enc, cmp, store, hist, resp, sent, open, inp,
          conns, stores>>

----------------------------------------------------------------------------
(* Bounds of the model. *)

\* chunks a connection receives in one run
MaxAppends == 4
\* values encoded in one run of the encoder specification
MaxEncodes == 2
\* frames a client sends in one run of the connection specification
MaxFrames == 3
\* length of the texts given to the encoder
MaxText == 2
MaxField == 3
MaxChunksEach == 2
\* magnitudes of parsed integers are kept exact up to here; every buffer of
\* the model is shorter, so a larger length or count behaves like this one
SatCap == 1000

----------------------------------------------------------------------------
(* Program constants. *)

BREAK_FIRST_CHAR == 13
NEW_LINE == 10
WORD_BREAK == <<13, 10>>
DOLLAR == 36
PLUS == 43
STAR == 42
MINUS == 45
DIGIT0 == 48

----------------------------------------------------------------------------
(* Slices and searches. *)

At(b, i) == b[i + 1]

Slice(b, s, e) == SubSeq(b, s + 1, e)

\* memchr(needle, haystack): index of the first occurrence, -1 for None
memchr(needle, hay) ==
    IF \E i \in 1..Len(hay) : hay[i] = needle
    THEN (CHOOSE i \in 1..Len(hay) :
              /\ hay[i] = needle
              /\ \A j \in 1..(i - 1) : hay[j] # needle) - 1
    ELSE -1

\* std::str::from_utf8 / String::from_utf8.  Exact for buffers whose only
\* bytes >= 128 are bytes that occur in no UTF-8 encoding (0xFF here).
from_utf8_ok(bytes) == \A i \in 1..Len(bytes) : bytes[i] < 128

----------------------------------------------------------------------------
(* parse_integer: str::from_utf8 then str::parse::<i64>. *)

IsDigit(c) == c >= DIGIT0 /\ c <= DIGIT0 + 9

I64MaxDigits == <<9,2,2,3,3,7,2,0,3,6,8,5,4,7,7,5,8,0,7>>
I64MinDigits == <<9,2,2,3,3,7,2,0,3,6,8,5,4,7,7,5,8,0,8>>

RECURSIVE StripZeros(_)
StripZeros(ds) ==
    IF Len(ds) > 0 /\ ds[1] = 0 THEN StripZeros(Tail(ds)) ELSE ds

RECURSIVE DigitsLeq(_, _)
DigitsLeq(a, b) ==
    IF Len(a) = 0 THEN TRUE
    ELSE IF a[1] < b[1] THEN TRUE
    ELSE IF a[1] > b[1] THEN FALSE
    ELSE DigitsLeq(Tail(a), Tail(b))

\* does the magnitude fit i64 (checked_mul / checked_add in from_str_radix)
FitsI64(neg, ds) ==
    \/ Len(StripZeros(ds)) < 19
    \/ /\ Len(StripZeros(ds)) = 19
       /\ DigitsLeq(StripZeros(ds),
                    IF neg THEN I64MinDigits ELSE I64MaxDigits)

RECURSIVE Magnitude(_, _)
Magnitude(ds, acc) ==
    IF Len(ds) = 0 THEN acc
    ELSE Magnitude(Tail(ds), IF acc * 10 + ds[1] > SatCap
                             THEN SatCap ELSE acc * 10 + ds[1])

IntOk(v) == [kind |-> "ok", val |-> v, err |-> ""]
IntErr(e) == [kind |-> "err", val |-> 0, err |-> e]

\* i64::from_str on the digits after the optional sign
parse_digits(neg, body) ==
    IF Len(body) = 0 \/ \E i \in 1..Len(body) : ~IsDigit(body[i])
    THEN IntErr("IntegerParseError")
    ELSE IF ~FitsI64(neg, [i \in 1..Len(body) |-> body[i] - DIGIT0])
    THEN IntErr("IntegerParseError")
    ELSE IntOk((IF neg THEN -1 ELSE 1)
               * Magnitude([i \in 1..Len(body) |-> body[i] - DIGIT0], 0))

parse_integer(slice) ==
    IF ~from_utf8_ok(slice) THEN IntErr("IntegerParseEncodingError")
    ELSE IF Len(slice) > 0 /\ slice[1] \in {MINUS, PLUS}
    THEN parse_digits(slice[1] = MINUS, Tail(slice))
    ELSE parse_digits(FALSE, slice)

----------------------------------------------------------------------------
(* Word scanner. *)

NoneIdx == -1
PanicIdx == -2

\* &buf[start..] panics when start > buf.len()
get_next_word_end(b, start) ==
    IF start > Len(b) THEN PanicIdx
    ELSE LET map(end) == IF end = -1 THEN NoneIdx ELSE start + end
         IN map(memchr(BREAK_FIRST_CHAR, Slice(b, start, Len(b))))

\* &buf[word_end..word_end + 2] panics when word_end + 2 > buf.len()
word_ends_with_break(b, word_end) ==
    IF word_end + Len(WORD_BREAK) > Len(b) THEN "panic"
    ELSE IF Slice(b, word_end, word_end + Len(WORD_BREAK)) = WORD_BREAK
    THEN "true" ELSE "false"

----------------------------------------------------------------------------
(* Index trees (RESPValueIndices) and parse results                        *)
(* Result<Option<(RESPValueIndices, usize)>, RESPError>.                    *)

IdxBlobString(s, e) == [t |-> "BlobString", s |-> s, e |-> e, items |-> <<>>]
IdxSimpleString(s, e) == [t |-> "SimpleString", s |-> s, e |-> e, items |-> <<>>]
IdxArray(items) == [t |-> "Array", s |-> 0, e |-> 0, items |-> items]
IdxNull == [t |-> "Null", s |-> 0, e |-> 0, items |-> <<>>]

PSome(tree, next) == [kind |-> "some", tree |-> tree, next |-> next, err |-> ""]
PNone == [kind |-> "none", tree |-> IdxNull, next |-> 0, err |-> ""]
PErr(e) == [kind |-> "err", tree |-> IdxNull, next |-> 0, err |-> e]
PPanic == [kind |-> "panic", tree |-> IdxNull, next |-> 0, err |-> ""]

----------------------------------------------------------------------------
(* Expression parser. *)

\* parse_blob_string from `let maybe_next_word_end` on: the payload of a
\* string of declared size str_size > 0
parse_blob_payload(b, str_start, str_size, str_end) ==
    IF str_end = PanicIdx THEN PPanic
    ELSE IF str_end = NoneIdx THEN PNone
    ELSE IF Len(b) < str_end + Len(WORD_BREAK) THEN PNone
    ELSE IF word_ends_with_break(b, str_end) = "panic" THEN PPanic
    ELSE IF word_ends_with_break(b, str_end) = "false"
    THEN PErr("WordNotEndingWithNewLine")
    ELSE IF str_size # str_end - str_start THEN PErr("InvalidNumberSize")
    ELSE PSome(IdxBlobString(str_start, str_end), str_end + Len(WORD_BREAK))

\* mutant of parse_blob_string: a length of zero is reported as Null
\* (`str_size <= 0` in place of `str_size < 0`)
parse_blob_string_null_on_zero(b, int_start, int_end) ==
    LET str_start == int_end + Len(WORD_BREAK)
        sized(str_size) ==
            IF str_size.kind = "err" THEN PErr(str_size.err)
            ELSE IF str_size.val <= 0
            THEN PSome(IdxNull, int_end + Len(WORD_BREAK))
            ELSE parse_blob_payload(b, str_start, str_size.val,
                                    get_next_word_end(b, str_start))
    IN sized(parse_integer(Slice(b, int_start, int_end)))

parse_blob_string(b, int_start, int_end) ==
    LET str_start == int_end + Len(WORD_BREAK)
        sized(str_size) ==
            IF str_size.kind = "err" THEN PErr(str_size.err)
            ELSE IF str_size.val < 0
            THEN PSome(IdxNull, int_end + Len(WORD_BREAK))
            ELSE IF str_size.val = 0
            THEN PSome(IdxBlobString(str_start, str_start),
                       int_end + Len(WORD_BREAK))
            ELSE parse_blob_payload(b, str_start, str_size.val,
                                    get_next_word_end(b, str_start))
    IN sized(parse_integer(Slice(b, int_start, int_end)))

parse_simple_string(b, start, end) ==
    IF Len(b) < end + Len(WORD_BREAK) THEN PNone
    ELSE IF word_ends_with_break(b, end) = "panic" THEN PPanic
    ELSE IF word_ends_with_break(b, end) = "false"
    THEN PErr("WordNotEndingWithNewLine")
    ELSE IF memchr(NEW_LINE, Slice(b, start, end)) # -1
    THEN PErr("NewLineInSimpleString")
    ELSE PSome(IdxSimpleString(start, end), end + Len(WORD_BREAK))

RECURSIVE parse_expression(_, _)
RECURSIVE parse_array_loop(_, _, _, _)

\* the for loop of parse_array: `left` iterations remain
parse_array_loop(b, left, next_start, values) ==
    IF left = 0 THEN PSome(IdxArray(values), next_start)
    ELSE
    LET push(r) ==
            IF r.kind = "some"
            THEN parse_array_loop(b, left - 1, r.next, Append(values, r.tree))
            ELSE r
    IN push(parse_expression(b, next_start))

\* Vec::with_capacity(unsigned_size) is taken to succeed: the counts the
\* model reaches are far below what an allocation could refuse
parse_array(b, size_start, size_end) ==
    LET next_start == size_end + Len(WORD_BREAK)
        sized(signed_size) ==
            IF signed_size.kind = "err" THEN PErr(signed_size.err)
            ELSE IF signed_size.val < 0
            THEN PSome(IdxNull, size_end + Len(WORD_BREAK))
            ELSE IF signed_size.val = 0
            THEN PSome(IdxArray(<<>>), next_start)
            ELSE parse_array_loop(b, signed_size.val, next_start, <<>>)
    IN sized(parse_integer(Slice(b, size_start, size_end)))

parse_expression(b, start) ==
    IF Len(b) < start THEN PNone
    ELSE
    LET map_or(end) ==
            IF end = PanicIdx THEN PPanic
            ELSE IF end = NoneIdx THEN PNone
            ELSE IF At(b, start) = DOLLAR
            THEN parse_blob_string(b, start + 1, end)
            ELSE IF At(b, start) = PLUS
            THEN parse_simple_string(b, start + 1, end)
            ELSE IF At(b, start) = STAR
            THEN parse_array(b, start + 1, end)
            ELSE PErr("UnsupportedValue")
    IN map_or(get_next_word_end(b, start))

----------------------------------------------------------------------------
(* Protocol values (RESPValue) and the materializer.  A String is the      *)
(* sequence of its UTF-8 bytes.                                            *)

BlobString(text) == [t |-> "BlobString", text |-> text, items |-> <<>>]
SimpleString(text) == [t |-> "SimpleString", text |-> text, items |-> <<>>]
Array(items) == [t |-> "Array", text |-> <<>>, items |-> items]
Null == [t |-> "Null", text |-> <<>>, items |-> <<>>]
\* the variants without a wire path: BlobError, SimpleError, Number, Double,
\* Boolean, Map, Set (payload left out: no code path reads it)
OtherVariant(tag) == [t |-> tag, text |-> <<>>, items |-> <<>>]

VOk(v) == [kind |-> "ok", value |-> v, err |-> ""]
VErr(e) == [kind |-> "err", value |-> Null, err |-> e]
VPanic == [kind |-> "panic", value |-> Null, err |-> ""]

\* buf[start..end] panics when start > end or end > buf.len()
SliceOk(b, s, e) == s <= e /\ e <= Len(b)

RECURSIVE to_value(_, _)
RECURSIVE to_value_items(_, _, _)

\* the for loop of the Array arm: the first failing child ends it
to_value_items(items, b, values) ==
    IF Len(items) = 0 THEN VOk(Array(values))
    ELSE
    LET push(r) ==
            IF r.kind = "ok"
            THEN to_value_items(Tail(items), b, Append(values, r.value))
            ELSE r
    IN push(to_value(Head(items), b))

to_value(tree, b) ==
    IF tree.t = "SimpleString" THEN
        IF ~SliceOk(b, tree.s, tree.e) THEN VPanic
        ELSE IF ~from_utf8_ok(Slice(b, tree.s, tree.e))
        THEN VErr("StringParseEncodingError")
        ELSE VOk(SimpleString(Slice(b, tree.s, tree.e)))
    ELSE IF tree.t = "BlobString" THEN
        IF ~SliceOk(b, tree.s, tree.e) THEN VPanic
        ELSE IF ~from_utf8_ok(Slice(b, tree.s, tree.e))
        THEN VErr("StringParseEncodingError")
        ELSE VOk(BlobString(Slice(b, tree.s, tree.e)))
    ELSE IF tree.t = "Array" THEN to_value_items(tree.items, b, <<>>)
    ELSE VOk(Null)

----------------------------------------------------------------------------
(* Codec: decode.  The result carries the buffer the call leaves behind.   *)

DValue(v, rest) == [kind |-> "value", value |-> v, err |-> "", buf |-> rest]
DNone(rest) == [kind |-> "none", value |-> Null, err |-> "", buf |-> rest]
DErr(e, rest) == [kind |-> "error", value |-> Null, err |-> e, buf |-> rest]
\* the task unwinds; what the buffer held is dropped with the connection
DPanic(rest) == [kind |-> "panic", value |-> Null, err |-> "", buf |-> <<>>]

\* Ok(Some(value_indices.to_value(&raw_expression)?)) with the buffer
\* already split: `rest` is what split_to left in buf
decode_value(v, rest) ==
    IF v.kind = "err" THEN DErr(v.err, rest)
    ELSE IF v.kind = "panic" THEN DPanic(rest)
    ELSE DValue(v.value, rest)

\* mutant of decode: the None arm discards the bytes it could not parse
\* (`None => { buf.clear(); Ok(None) }`)
decode_clearing_on_none(b) ==
    IF Len(b) = 0 THEN DNone(b)
    ELSE
    LET match(p) ==
            IF p.kind = "err" THEN DErr(p.err, b)
            ELSE IF p.kind = "panic" THEN DPanic(b)
            ELSE IF p.kind = "none" THEN DNone(<<>>)
            ELSE IF p.next > Len(b) THEN DPanic(b)
            ELSE decode_value(to_value(p.tree, SubSeq(b, 1, p.next)),
                              SubSeq(b, p.next + 1, Len(b)))
    IN match(parse_expression(b, 0))

decode(b) ==
    IF Len(b) = 0 THEN DNone(b)
    ELSE
    LET match(p) ==
            IF p.kind = "err" THEN DErr(p.err, b)
            ELSE IF p.kind = "panic" THEN DPanic(b)
            ELSE IF p.kind = "none" THEN DNone(b)
            \* split_to asserts split_index <= len
            ELSE IF p.next > Len(b) THEN DPanic(b)
            ELSE decode_value(to_value(p.tree, SubSeq(b, 1, p.next)),
                              SubSeq(b, p.next + 1, Len(b)))
    IN match(parse_expression(b, 0))

----------------------------------------------------------------------------
(* Codec: encode. *)

\* Display of a usize: its decimal digits, no sign, no leading zero
RECURSIVE fmt_usize(_)
fmt_usize(k) ==
    IF k < 10 THEN <<DIGIT0 + k>>
    ELSE Append(fmt_usize(k \div 10), DIGIT0 + (k % 10))

\* the bytes write! appends to buf; the fmt::Result is always Ok(())
write_resp_value(value, dst) ==
    IF value.t = "BlobString"
    THEN dst \o <<DOLLAR>> \o fmt_usize(Len(value.text)) \o WORD_BREAK
             \o value.text \o WORD_BREAK
    ELSE IF value.t = "SimpleString"
    THEN dst \o <<PLUS>> \o value.text \o WORD_BREAK
    ELSE IF value.t = "Null"
    THEN dst \o <<DOLLAR, MINUS, DIGIT0 + 1>> \o WORD_BREAK
    ELSE dst

\* write_resp_value(item, dst).unwrap(); Ok(())
encode(item, dst) == [ok |-> TRUE, dst |-> write_resp_value(item, dst)]

----------------------------------------------------------------------------
(* Command dispatcher. *)

GET == <<71, 69, 84>>
SET == <<83, 69, 84>>
OK == <<79, 75>>

EmptyMap == [k \in {} |-> Null]

HOk(v, map) == [kind |-> "ok", value |-> v, err |-> "", name |-> <<>>, map |-> map]
HErr(e, name, map) ==
    [kind |-> "err", value |-> Null, err |-> e, name |-> name, map |-> map]
HPanic(map) == [kind |-> "panic", value |-> Null, err |-> "", name |-> <<>>, map |-> map]

\* HashMap::insert: the new map (the old value is read before the call)
MapInsert(map, key, value) ==
    [k \in DOMAIN map \cup {key} |-> IF k = key THEN value ELSE map[k]]

\* mutant of handle_request: SET keeps the value a key already has
\* (`map.entry(key).or_insert(..)` in place of `map.insert(key, ..)`)
handle_request_keeping_old(command, map) ==
    IF Len(command) = 0 THEN HPanic(map)
    ELSE
    IF command[1] = GET THEN
        IF Len(command) # 2
        THEN HErr("WrongNumberOfArguments", command[1], map)
        ELSE HOk(IF command[2] \in DOMAIN map THEN map[command[2]] ELSE Null,
                 map)
    ELSE IF command[1] = SET THEN
        IF Len(command) # 3
        THEN HErr("WrongNumberOfArguments", command[1], map)
        ELSE IF command[2] \in DOMAIN map
        THEN HOk(map[command[2]], map)
        ELSE HOk(SimpleString(OK),
                 MapInsert(map, command[2], BlobString(command[3])))
    ELSE HErr("UnsupportedCommand", <<>>, map)

\* mutant of handle_request: the argument checks only reject too few words
\* (`command.len() < 2` and `command.len() < 3` in place of `!=`)
handle_request_min_args(command, map) ==
    IF Len(command) = 0 THEN HPanic(map)
    ELSE
    IF command[1] = GET THEN
        IF Len(command) < 2
        THEN HErr("WrongNumberOfArguments", command[1], map)
        ELSE HOk(IF command[2] \in DOMAIN map THEN map[command[2]] ELSE Null,
                 map)
    ELSE IF command[1] = SET THEN
        IF Len(command) < 3
        THEN HErr("WrongNumberOfArguments", command[1], map)
        ELSE HOk(IF command[2] \in DOMAIN map THEN map[command[2]]
                 ELSE SimpleString(OK),
                 MapInsert(map, command[2], BlobString(command[3])))
    ELSE HErr("UnsupportedCommand", <<>>, map)

\* command[0] panics on an empty command
handle_request(command, map) ==
    IF Len(command) = 0 THEN HPanic(map)
    ELSE
    IF command[1] = GET THEN
        IF Len(command) # 2
        THEN HErr("WrongNumberOfArguments", command[1], map)
        ELSE HOk(IF command[2] \in DOMAIN map THEN map[command[2]] ELSE Null,
                 map)
    ELSE IF command[1] = SET THEN
        IF Len(command) # 3
        THEN HErr("WrongNumberOfArguments", command[1], map)
        ELSE HOk(IF command[2] \in DOMAIN map THEN map[command[2]]
                 ELSE SimpleString(OK),
                 MapInsert(map, command[2], BlobString(command[3])))
    ELSE HErr("UnsupportedCommand", <<>>, map)

----------------------------------------------------------------------------
(* The codec on one connection: bytes arrive in chunks, the framed reader  *)
(* (handle_connection's reader.next()) calls decode on the accumulation    *)
(* buffer.                                                                 *)

\* what one read may deliver: single bytes `$ + * 0 1 CR LF a 0xFF`, the
\* integer `-1`, the terminator, and the headers `$1\r\n`, `$0\r\n`, `*1\r\n`
Chunks ==
    { <<36>>, <<43>>, <<42>>, <<48>>, <<49>>, <<13>>, <<10>>, <<97>>, <<255>>,
      <<45, 49>>, <<13, 10>>,
      <<36, 49, 13, 10>>, <<36, 48, 13, 10>>, <<42, 49, 13, 10>> }

Idle == [kind |-> "idle", value |-> Null, err |-> "", buf |-> <<>>]

NoEnc == [item |-> Null, ok |-> FALSE, before |-> <<>>, after |-> <<>>]

\* the framed reader's loop: decode is called until it stops yielding
\* values; `end` is how it stopped ("none", "error" or "panic")
RECURSIVE DecodeAll(_, _)
DecodeAll(b, values) ==
    LET next(r) ==
            IF r.kind = "value"
            THEN DecodeAll(r.buf, Append(values, r.value))
            ELSE [values |-> values, end |-> r.kind, err |-> r.err,
                  buf |-> r.buf]
    IN next(decode(b))

\* the same bytes in two reads, b[0..k] then b[k..]
DecodeTwoChunks(b, k) ==
    LET second(first) ==
            IF first.end = "panic" THEN first
            ELSE DecodeAll(first.buf \o SubSeq(b, k + 1, Len(b)),
                           first.values)
    IN second(DecodeAll(SubSeq(b, 1, k), <<>>))

NoRun == [values |-> <<>>, end |-> "none", err |-> "", buf |-> <<>>]

NoCmp == [done |-> FALSE, k |-> 0, whole |-> NoRun, split |-> NoRun]

\* the tasks main spawns, one per accepted socket
Conns == {1, 2}

\* a connection as handle_connection sets it up: an empty buffer, nothing
\* received, dispatched or written yet
NewConn == [buf |-> <<>>, inp |-> <<>>, hist |-> <<>>, sent |-> <<>>,
            open |-> TRUE]

NoResp == [kind |-> "none", value |-> Null, err |-> "", name |-> <<>>]

Init ==
    /\ buf = <<>>
    /\ pre = <<>>
    /\ res = Idle
    /\ n = 0
    /\ enc = NoEnc
    /\ cmp = NoCmp
    /\ store = EmptyMap
    /\ hist = <<>>
    /\ resp = NoResp
    /\ sent = <<>>
    /\ open = TRUE
    /\ inp = <<>>
    /\ conns = [c \in Conns |-> NewConn]
    /\ stores = [c \in Conns |-> EmptyMap]

\* the transport delivers a chunk: the reader appends it to the buffer
Receive(chunk) ==
    /\ res.kind # "panic"
    /\ n < MaxAppends
    /\ buf' = buf \o chunk
    /\ n' = n + 1
    /\ res' = Idle
    /\ UNCHANGED <<pre, enc, cmp, connvars, inp, twovars>>

\* one call of RESPCodec::decode on the accumulation buffer
Decode ==
    /\ res.kind # "panic"
    /\ \E r \in {decode(buf)} :
        /\ pre' = buf
        /\ res' = [r EXCEPT !.buf = <<>>]
        /\ buf' = r.buf
    /\ UNCHANGED <<n, enc, cmp, connvars, inp, twovars>>

Next ==
    \/ \E chunk \in Chunks : Receive(chunk)
    \/ Decode

Spec == Init /\ [][Next]_vars

----------------------------------------------------------------------------
(* The wire protocol as the specification states it, used to say what a    *)
(* complete wire form is:  $<len>\r\n<len bytes>\r\n ,  +<text>\r\n ,     *)
(* *<count>\r\n<count expressions> , a negative len or count for Null.     *)

HasBreakAt(b, i) ==
    /\ i >= 0
    /\ i + 2 <= Len(b)
    /\ Slice(b, i, i + 2) = WORD_BREAK

\* offset of the CR that ends the field starting at `from`, -1 if none
FieldEnd(b, from) ==
    IF from > Len(b) THEN -1
    ELSE LET i == memchr(BREAK_FIRST_CHAR, Slice(b, from, Len(b)))
         IN IF i = -1 THEN -1 ELSE from + i

RECURSIVE WireEnd(_, _, _)
RECURSIVE WireEndItems(_, _, _)

WireEndItems(b, pos, items) ==
    IF pos = -1 \/ Len(items) = 0 THEN pos
    ELSE WireEndItems(b, WireEnd(b, pos, Head(items)), Tail(items))

\* the offset just past the wire form of value v that starts at pos, or -1
\* when the bytes at pos are not a wire form of v
WireEnd(b, pos, v) ==
    IF pos < 0 \/ pos >= Len(b) THEN -1
    ELSE IF v.t = "SimpleString" THEN
        LET e == pos + 1 + Len(v.text) IN
        IF At(b, pos) = PLUS /\ HasBreakAt(b, e)
           /\ Slice(b, pos + 1, e) = v.text
        THEN e + 2 ELSE -1
    ELSE
    LET he  == FieldEnd(b, pos + 1)
        num == parse_integer(Slice(b, pos + 1, he))
    IN
    IF he = -1 \/ ~HasBreakAt(b, he) \/ num.kind # "ok" THEN -1
    ELSE IF v.t = "Null" THEN
        IF At(b, pos) \in {DOLLAR, STAR} /\ num.val < 0 THEN he + 2 ELSE -1
    ELSE IF v.t = "BlobString" THEN
        LET e == he + 2 + Len(v.text) IN
        IF At(b, pos) = DOLLAR /\ num.val = Len(v.text) /\ HasBreakAt(b, e)
           /\ Slice(b, he + 2, e) = v.text
        THEN e + 2 ELSE -1
    ELSE IF v.t = "Array" THEN
        IF At(b, pos) = STAR /\ num.val = Len(v.items)
        THEN WireEndItems(b, he + 2, v.items) ELSE -1
    ELSE -1

\* the bytes the last decode removed from the front of the buffer
Consumed == SubSeq(pre, 1, Len(pre) - Len(buf))

Decoded == res.kind # "idle"

----------------------------------------------------------------------------
(* Claims about decode on a stream (specification Spec).                   *)

\* C2: tri-state outcome: every call of decode ends with a value, with
\* "no value yet" or with an error, and never aborts.
C2_TriStateOutcome == res.kind \in {"idle", "value", "none", "error"}

\* C3: whenever decode returns "no value yet" the buffer is what it was
\* before the call, and a further decode with no bytes appended in between
\* returns "no value yet" again and leaves the buffer alone.
C3_NoValueLeavesBuffer ==
    /\ [](res.kind = "none" => buf = pre)
    /\ [][(res.kind = "none" /\ res'.kind # "idle")
            => (res'.kind = "none" /\ buf' = buf /\ pre' = buf)]_vars

\* C3 witness: "no value yet" two array levels deep (`*1\r\n*1\r\n+` and
\* more to come), buffer intact
C3_Witness ==
    /\ res.kind = "none"
    /\ Len(pre) >= 9
    /\ SubSeq(pre, 1, 9) = <<42, 49, 13, 10, 42, 49, 13, 10, 43>>
    /\ buf = pre

\* C4: whenever decode returns an error, of any kind, the buffer is what
\* it was before the call.
C4_ErrorLeavesBuffer == res.kind = "error" => buf = pre

\* C5: when decode returns a value it removes from the front of the buffer
\* exactly the bytes of that value's complete wire form, and leaves the
\* bytes after it unchanged.
C5_ValueConsumesWireForm ==
    res.kind = "value" =>
        /\ Len(buf) <= Len(pre)
        /\ pre = Consumed \o buf
        /\ WireEnd(Consumed, 0, res.value) = Len(Consumed)

\* a buffer that ends in a lone CR where a terminator is expected: after
\* the length field of `$`, the count field of `*`, a simple string, or
\* the payload of a blob string
EndsInLoneCR(b) ==
    /\ Len(b) >= 2
    /\ b[Len(b)] = BREAK_FIRST_CHAR
    /\ \/ /\ b[1] \in {DOLLAR, STAR}
          /\ parse_integer(SubSeq(b, 2, Len(b) - 1)).kind = "ok"
       \/ /\ b[1] = PLUS
          /\ \A i \in 2..(Len(b) - 1) : b[i] \notin {BREAK_FIRST_CHAR, NEW_LINE}
       \/ /\ b[1] = DOLLAR
          /\ LET he  == FieldEnd(b, 1)
                 num == parse_integer(Slice(b, 1, he))
             IN /\ he # -1
                /\ HasBreakAt(b, he)
                /\ num.kind = "ok"
                /\ num.val > 0
                /\ Len(b) = he + 2 + num.val + 1

\* C7: a buffer whose last byte is a lone CR standing where a terminator is
\* expected decodes to "no value yet".
C7_LoneCRIsIncomplete ==
    (Decoded /\ EndsInLoneCR(pre)) => res.kind = "none"

\* C8: a non-empty buffer whose first byte is none of `$`, `+`, `*` fails
\* with UnsupportedValue, terminator present or not.
C8_UnknownPrefixFails ==
    (Decoded /\ Len(pre) > 0 /\ pre[1] \notin {DOLLAR, PLUS, STAR})
        => (res.kind = "error" /\ res.err = "UnsupportedValue")

----------------------------------------------------------------------------
(* Chunk boundaries (specification SpecChunk): the bytes received so far   *)
(* are decoded once as a whole and once split at k.                        *)

CompareAt(k) ==
    /\ ~cmp.done
    /\ Len(buf) > 0
    /\ cmp' = [done |-> TRUE, k |-> k,
               whole |-> DecodeAll(buf, <<>>),
               split |-> DecodeTwoChunks(buf, k)]
    /\ UNCHANGED <<buf, pre, res, n, enc, connvars, inp, twovars>>

ReceiveInput(chunk) ==
    /\ ~cmp.done
    /\ Receive(chunk)

NextChunk ==
    \/ \E chunk \in Chunks : ReceiveInput(chunk)
    \/ \E k \in 0..Len(buf) : CompareAt(k)

SpecChunk == Init /\ [][NextChunk]_vars

\* C1: chunk-boundary independence: decoding the bytes in two reads split
\* at any k yields the same values, the same final error and the same final
\* buffer as decoding them in one read.
C1_ChunkIndependence == cmp.done => cmp.split = cmp.whole

----------------------------------------------------------------------------
(* The encoder (specification SpecEnc): values are encoded into the        *)
(* buffer, which is then decoded.                                          *)

\* texts over `a`, CR and LF, the empty text included
RECURSIVE TextsOfLen(_)
TextsOfLen(k) ==
    IF k = 0 THEN {<<>>}
    ELSE {Append(t, c) : t \in TextsOfLen(k - 1), c \in {97, 13, 10}}

Texts == UNION {TextsOfLen(k) : k \in 0..MaxText}

EncodeItems ==
    {BlobString(t) : t \in Texts} \cup {SimpleString(t) : t \in Texts}
    \cup {Null, Array(<<>>), Array(<<BlobString(<<97>>)>>),
          OtherVariant("Number"), OtherVariant("Boolean")}

\* one call of RESPCodec::encode, appending to the buffer
Encode(item) ==
    /\ res.kind # "panic"
    /\ n < MaxEncodes
    /\ \E r \in {encode(item, buf)} :
        /\ enc' = [item |-> item, ok |-> r.ok, before |-> buf, after |-> r.dst]
        /\ buf' = r.dst
    /\ n' = n + 1
    /\ res' = Idle
    /\ UNCHANGED <<pre, cmp, connvars, inp, twovars>>

NextEnc ==
    \/ \E item \in EncodeItems : Encode(item)
    \/ Decode

SpecEnc == Init /\ [][NextEnc]_vars

\* C6: round trip: encoding BlobString(s) into an empty buffer and decoding
\* that buffer returns BlobString(s), for every text s, CR and LF included.
C6_RoundTrip ==
    (Decoded /\ enc.ok /\ enc.item.t = "BlobString"
        /\ enc.before = <<>> /\ pre = enc.after)
    => (res.kind = "value" /\ res.value = enc.item)

\* the wire forms the claim gives for the three supported variants
EncodedForm(v) ==
    IF v.t = "BlobString"
    THEN <<DOLLAR>> \o fmt_usize(Len(v.text)) \o <<13, 10>> \o v.text \o <<13, 10>>
    ELSE IF v.t = "SimpleString" THEN <<PLUS>> \o v.text \o <<13, 10>>
    ELSE <<36, 45, 49, 13, 10>>

\* C9: encoding a value of a variant other than BlobString, SimpleString
\* and Null fails loudly: it never returns success having written nothing;
\* the three supported variants append their wire forms.
C9_UnsupportedEncodeFailsLoudly ==
    /\ enc.item.t \notin {"BlobString", "SimpleString", "Null"}
         => ~(enc.ok /\ enc.after = enc.before)
    /\ (enc.ok /\ enc.item.t \in {"BlobString", "SimpleString", "Null"})
         => enc.after = enc.before \o EncodedForm(enc.item)

----------------------------------------------------------------------------
(* One connection (specification SpecConn): a client sends whole frames,   *)
(* handle_connection's loop takes what the framed reader yields.           *)

RECURSIVE BlobWords(_)
BlobWords(words) ==
    IF Len(words) = 0 THEN <<>>
    ELSE <<DOLLAR>> \o fmt_usize(Len(Head(words))) \o <<13, 10>>
         \o Head(words) \o <<13, 10>> \o BlobWords(Tail(words))

\* a request as a client writes it: an array of blob strings
RequestFrame(words) ==
    <<STAR>> \o fmt_usize(Len(words)) \o <<13, 10>> \o BlobWords(words)

\* keys `a`, `b`; values `x`, `y` and the empty text
Commands ==
    { <<GET, <<97>>>>, <<GET, <<98>>>>,
      <<SET, <<97>>, <<120>>>>, <<SET, <<97>>, <<121>>>>,
      <<SET, <<98>>, <<120>>>>, <<SET, <<98>>, <<>>>>,
      <<GET>>, <<SET, <<97>>>>, <<<<80, 73, 78, 71>>>>,
      <<GET, <<97>>, <<>>>> }

RequestFrames == {RequestFrame(c) : c \in Commands}

\* frames that are no request: `+a\r\n`, `*0\r\n`, `$-1\r\n`,
\* `*1\r\n+a\r\n`, `*1\r\n$-1\r\n`, `*1\r\n*0\r\n`,
\* `*2\r\n$3\r\nGET\r\n+a\r\n`, and the malformed `?\r\n`
OtherFrames ==
    { <<43, 97, 13, 10>>, <<42, 48, 13, 10>>, <<36, 45, 49, 13, 10>>,
      <<42, 49, 13, 10, 43, 97, 13, 10>>,
      <<42, 49, 13, 10, 36, 45, 49, 13, 10>>,
      <<42, 49, 13, 10, 42, 48, 13, 10>>,
      <<42, 50, 13, 10, 36, 51, 13, 10, 71, 69, 84, 13, 10, 43, 97, 13, 10>>,
      <<63, 13, 10>> }

Frames == RequestFrames \cup OtherFrames

ReceiveFrame(frame) ==
    /\ open
    /\ n < MaxFrames
    /\ buf' = buf \o frame
    /\ n' = n + 1
    /\ inp' = Append(inp, frame)
    /\ UNCHANGED <<pre, res, enc, cmp, connvars, twovars>>

Dropped(why) == [kind |-> "dropped", value |-> Null, err |-> why, name |-> <<>>]

\* one iteration of the while loop: reader.next() yields what decode made
\* of the buffer, the match arms follow.  After a decode error the framed
\* reader of the library either ends the stream or decodes again.
\* mutant of all_blob_strings: one blob string among the elements is enough
\* (`values.iter().any(..)` in place of `all`)
any_blob_string(values) ==
    \E i \in 1..Len(values) : values[i].t = "BlobString"

\* `values.iter().all(|value| matches!(value, RESPValue::BlobString(_)))`
all_blob_strings(values) ==
    \A i \in 1..Len(values) : values[i].t = "BlobString"

Serve ==
    /\ open
    /\ \E r \in {decode(buf)} :
        /\ r.kind # "none"
        /\ pre' = buf
        /\ res' = [r EXCEPT !.buf = <<>>]
        /\ buf' = r.buf
        /\ IF r.kind = "panic"
           THEN open' = FALSE /\ UNCHANGED <<store, hist, resp, sent>>
           ELSE IF r.kind = "error"
           THEN open' \in {TRUE, FALSE} /\ UNCHANGED <<store, hist, resp, sent>>
           ELSE IF r.value.t # "Array"
           THEN /\ resp' = Dropped("A request must be an array")
                /\ UNCHANGED <<store, hist, sent, open>>
           ELSE IF Len(r.value.items) = 0
           THEN /\ resp' = Dropped("A request must not be an empty array")
                /\ UNCHANGED <<store, hist, sent, open>>
           ELSE IF ~all_blob_strings(r.value.items)
           THEN /\ resp' = Dropped("A request must be an array of only blob strings")
                /\ UNCHANGED <<store, hist, sent, open>>
           ELSE
           \E commands \in {[i \in 1..Len(r.value.items) |->
                                 r.value.items[i].text]} :
           \E h \in {handle_request(commands, store)} :
              /\ hist' = Append(hist, commands)
              /\ resp' = [kind |-> h.kind, value |-> h.value,
                          err |-> h.err, name |-> h.name]
              /\ store' = h.map
              /\ sent' = IF h.kind = "ok"
                         THEN Append(sent, encode(h.value, <<>>).dst)
                         ELSE sent
              /\ open' = (h.kind # "panic")
    /\ UNCHANGED <<n, enc, cmp, inp, twovars>>

NextConn ==
    \/ \E frame \in Frames : ReceiveFrame(frame)
    \/ Serve

SpecConn == Init /\ [][NextConn]_vars

----------------------------------------------------------------------------
(* The reference map of C10: what the requests so far have set.            *)

IsGet(c) == Len(c) = 2 /\ c[1] = GET
IsSet(c) == Len(c) = 3 /\ c[1] = SET

\* index in h of the most recent `SET k v`, 0 if k was never set
RECURSIVE LastSet(_, _)
LastSet(h, k) ==
    IF Len(h) = 0 THEN 0
    ELSE IF IsSet(h[Len(h)]) /\ h[Len(h)][2] = k THEN Len(h)
    ELSE LastSet(SubSeq(h, 1, Len(h) - 1), k)

\* C10: handle_request behaves like a reference string-keyed map: GET k
\* returns BlobString(v) of the most recent SET k v, or Null if k was never
\* set, and leaves the store unchanged; SET k v returns the value stored
\* under k before, or SimpleString "OK" if k was absent, and then the store
\* maps k to BlobString(v) and every other key is unchanged.
C10_GetSetLikeMap ==
    [][hist' # hist =>
        LET c    == hist'[Len(hist')]
            last == LastSet(hist, c[2])
            old  == IF last = 0 THEN Null ELSE BlobString(hist[last][3])
        IN /\ hist' = Append(hist, c)
           /\ IsGet(c) =>
                /\ resp'.kind = "ok"
                /\ resp'.value = old
                /\ store' = store
           /\ IsSet(c) =>
                /\ resp'.kind = "ok"
                /\ resp'.value = IF last = 0 THEN SimpleString(OK) ELSE old
                /\ DOMAIN store' = DOMAIN store \cup {c[2]}
                /\ store'[c[2]] = BlobString(c[3])
                /\ \A k \in DOMAIN store : k # c[2] => store'[k] = store[k]
    ]_vars

\* C10 witness: a key set twice, then read: GET returns the later value
C10_Witness ==
    /\ Len(hist) = 3
    /\ IsSet(hist[1]) /\ IsSet(hist[2]) /\ IsGet(hist[3])
    /\ hist[1][2] = hist[3][2] /\ hist[2][2] = hist[3][2]
    /\ hist[1][3] # hist[2][3]
    /\ resp.kind = "ok"
    /\ resp.value = BlobString(hist[2][3])
    /\ Len(sent) = 3

----------------------------------------------------------------------------
(* Requests the dispatcher rejects.                                        *)

\* C11: a request whose first word is GET with a word count other than 2,
\* or SET with a word count other than 3, fails with WrongNumberOfArguments
\* carrying the command name; a request with any other first word fails
\* with UnsupportedCommand; in both cases the store is left unchanged.
C11_RejectedRequests ==
    [][hist' # hist =>
        LET c == hist'[Len(hist')]
        IN /\ ((c[1] = GET /\ Len(c) # 2) \/ (c[1] = SET /\ Len(c) # 3)) =>
                /\ resp'.kind = "err"
                /\ resp'.err = "WrongNumberOfArguments"
                /\ resp'.name = c[1]
                /\ store' = store
           /\ c[1] \notin {GET, SET} =>
                /\ resp'.kind = "err"
                /\ resp'.err = "UnsupportedCommand"
                /\ store' = store
    ]_vars

\* C11 witness: after a SET filled the store, an unknown command and then a
\* GET with three words were both rejected, the store still as the SET left it
C11_Witness ==
    /\ Len(hist) = 3
    /\ IsSet(hist[1])
    /\ hist[2][1] \notin {GET, SET}
    /\ hist[3][1] = GET /\ Len(hist[3]) = 3
    /\ resp.kind = "err"
    /\ resp.err = "WrongNumberOfArguments"
    /\ resp.name = GET
    /\ store = MapInsert(EmptyMap, hist[1][2], BlobString(hist[1][3]))
    /\ Len(sent) = 1

----------------------------------------------------------------------------
(* The loop after a rejected request.                                      *)

\* the command a request frame carries
CommandOf(frame) == CHOOSE c \in Commands : RequestFrame(c) = frame

\* the commands of the frames the client sent
SentCommands == [i \in 1..Len(inp) |-> CommandOf(inp[i])]

\* a command the dispatcher rejects
Rejected(c) == ~IsGet(c) /\ ~IsSet(c)

\* what the reference map answers to the last command of h
Answer(h) ==
    LET c    == h[Len(h)]
        last == LastSet(SubSeq(h, 1, Len(h) - 1), c[2])
    IN IF last = 0
       THEN (IF IsSet(c) THEN SimpleString(OK) ELSE Null)
       ELSE BlobString(h[last][3])

\* the responses a connection writes for the commands h, in request order:
\* one per GET or SET, none for a rejected command
RECURSIVE ExpectedSent(_)
ExpectedSent(h) ==
    IF Len(h) = 0 THEN <<>>
    ELSE IF Rejected(h[Len(h)]) THEN ExpectedSent(SubSeq(h, 1, Len(h) - 1))
    ELSE Append(ExpectedSent(SubSeq(h, 1, Len(h) - 1)),
                EncodedForm(Answer(h)))

\* the loop can take no further step on the bytes it has: the task ended,
\* the buffer holds no complete value, or decode fails on it without
\* consuming anything
AtRest ==
    LET rest(r) == \/ r.kind = "none"
                   \/ r.kind = "error" /\ r.buf = buf
    IN ~open \/ rest(decode(buf))

\* C12: after a request that fails in the dispatcher the connection loop
\* keeps running: no response is written for the failed request, and every
\* later well-formed request on the connection is still dispatched and
\* answered, in request order, against the same store contents.  Stated on
\* finished runs: the client sent only requests, one of them was rejected
\* by the dispatcher, and the loop is at rest; then every request sent was
\* dispatched and the responses written are those of the reference map.
C12_LoopSurvivesRejection ==
    ( /\ \A i \in 1..Len(inp) : inp[i] \in RequestFrames
      /\ \E i \in 1..Len(hist) : Rejected(hist[i])
      /\ AtRest )
    => /\ open
       /\ hist = SentCommands
       /\ sent = ExpectedSent(hist)

----------------------------------------------------------------------------
(* Null, empty and mismatched lengths (specification Spec).                *)

\* the length or count field of the value at the start of b: the bytes
\* between the prefix and the first CR
HeaderField(b) == Slice(b, 1, FieldEnd(b, 1))

\* b starts with `$` or `*` and a field that parse_integer accepts
HasDeclaredSize(b) ==
    /\ Len(b) > 0
    /\ b[1] \in {DOLLAR, STAR}
    /\ FieldEnd(b, 1) # -1
    /\ parse_integer(HeaderField(b)).kind = "ok"

DeclaredSize(b) == parse_integer(HeaderField(b)).val

\* C13: decoding a buffer holding exactly `*-1\r\n` returns Null, `*0\r\n`
\* returns an empty Array, `$-1\r\n` returns Null, and `$0\r\n\r\n` returns
\* an empty BlobString; a declared length or count of zero is never reported
\* as Null, and a negative one is never reported as an empty string or
\* empty array.
C13_NullAndEmpty ==
    Decoded =>
        /\ pre = <<42, 45, 49, 13, 10>> =>
              res.kind = "value" /\ res.value = Null
        /\ pre = <<42, 48, 13, 10>> =>
              res.kind = "value" /\ res.value = Array(<<>>)
        /\ pre = <<36, 45, 49, 13, 10>> =>
              res.kind = "value" /\ res.value = Null
        /\ pre = <<36, 48, 13, 10, 13, 10>> =>
              res.kind = "value" /\ res.value = BlobString(<<>>)
        /\ (res.kind = "value" /\ HasDeclaredSize(pre)) =>
              /\ DeclaredSize(pre) = 0 =>
                    res.value = IF pre[1] = DOLLAR THEN BlobString(<<>>)
                                ELSE Array(<<>>)
              /\ DeclaredSize(pre) < 0 => res.value = Null

\* C13 witness: decode returned the empty BlobString for `$0\r\n\r\n`
C13_Witness ==
    /\ Decoded
    /\ pre = <<36, 48, 13, 10, 13, 10>>
    /\ res.kind = "value"
    /\ res.value = BlobString(<<>>)

\* offset of the first CR LF pair of b at or after `from`, -1 if none
FirstBreak(b, from) ==
    LET at == {i \in from..(Len(b) - 2) : HasBreakAt(b, i)}
    IN IF at = {} THEN -1
       ELSE CHOOSE i \in at : \A j \in at : i <= j

\* b holds a `$` value with a declared length above zero, its length line,
\* and after it some bytes followed by a complete CR LF
HasPayloadSpan(b) ==
    /\ HasDeclaredSize(b)
    /\ b[1] = DOLLAR
    /\ DeclaredSize(b) > 0
    /\ HasBreakAt(b, FieldEnd(b, 1))
    /\ FirstBreak(b, FieldEnd(b, 1) + 2) # -1

\* the number of bytes between the end of the length line and the terminator
PayloadSpan(b) == FirstBreak(b, FieldEnd(b, 1) + 2) - (FieldEnd(b, 1) + 2)

\* C14: for a `$` value with declared length L > 0 whose payload is followed
\* by a complete CR LF terminator, if the number of bytes between the end of
\* the length line and that terminator differs from L, decode fails with
\* InvalidNumberSize and returns no value.
C14_LengthMismatch ==
    (Decoded /\ HasPayloadSpan(pre) /\ PayloadSpan(pre) # DeclaredSize(pre))
    => (res.kind = "error" /\ res.err = "InvalidNumberSize")

----------------------------------------------------------------------------
(* What reaches the dispatcher (specification SpecConn).                   *)

\* a non-empty array whose elements are all blob strings
IsRequest(v) ==
    /\ v.t = "Array"
    /\ Len(v.items) > 0
    /\ \A i \in 1..Len(v.items) : v.items[i].t = "BlobString"

\* C15: handle_request is reached only for decoded values that are
\* non-empty arrays whose elements are all blob strings; every other decoded
\* value (a non-array, an empty array, an array holding a Null, a simple
\* string or a nested array) is dropped with no response written and no
\* change to the store, so handle_request never reads the first word of an
\* empty command.
C15_OnlyRequestsDispatched ==
    [][ /\ hist' # hist =>
              /\ res'.kind = "value"
              /\ IsRequest(res'.value)
              /\ Len(hist'[Len(hist')]) > 0
              /\ resp'.kind \in {"ok", "err"}
              /\ open'
        /\ (Len(buf') < Len(buf) /\ res'.kind = "value"
                /\ ~IsRequest(res'.value)) =>
              /\ hist' = hist
              /\ resp'.kind = "dropped"
              /\ sent' = sent
              /\ store' = store
              /\ open'
    ]_vars

\* C15 witness: after a SET and a GET were answered, an array holding a Null
\* was dropped: nothing dispatched, nothing written, the store as it was
C15_Witness ==
    /\ res.kind = "value"
    /\ res.value = Array(<<Null>>)
    /\ resp.kind = "dropped"
    /\ Len(hist) = 2 /\ IsSet(hist[1]) /\ IsGet(hist[2])
    /\ Len(sent) = 2
    /\ store = MapInsert(EmptyMap, hist[1][2], BlobString(hist[1][3]))
    /\ open

----------------------------------------------------------------------------
(* The index tree and the array parse (specification Spec).                *)

\* every range of the tree lies inside a buffer of length len
RECURSIVE TreeInBounds(_, _)
TreeInBounds(tree, len) ==
    IF tree.t \in {"BlobString", "SimpleString"}
    THEN 0 <= tree.s /\ tree.s <= tree.e /\ tree.e <= len
    ELSE IF tree.t = "Array"
    THEN \A i \in 1..Len(tree.items) : TreeInBounds(tree.items[i], len)
    ELSE TRUE

\* C16: index-tree bounds: whenever parse_expression returns a tree and a
\* next offset for a buffer of length n, every range [start, end) in the
\* tree satisfies start <= end <= n and the next offset is <= n.
C16_IndexTreeInBounds ==
    LET inside(p) ==
            p.kind = "some" =>
                /\ TreeInBounds(p.tree, Len(pre))
                /\ p.next <= Len(pre)
    IN Decoded => inside(parse_expression(pre, 0))

\* how far the wire protocol gets on the bytes of b from pos on: one
\* complete value ending at `next`, a value that needs more bytes, or
\* bytes that are no value
WDone(next) == [kind |-> "done", next |-> next]
WMore == [kind |-> "more", next |-> -1]
WBad == [kind |-> "bad", next |-> -1]

RECURSIVE WireParse(_, _)
RECURSIVE WireParseItems(_, _, _)

WireParseItems(b, left, pos) ==
    IF left = 0 THEN WDone(pos)
    ELSE LET after(r) == IF r.kind = "done"
                         THEN WireParseItems(b, left - 1, r.next)
                         ELSE r
         IN after(WireParse(b, pos))

\* a `$` payload of declared length len starting at from: it ends at the
\* next CR LF, which has to be len bytes away, and is UTF-8 text
WireParseBlob(b, from, len) ==
    LET to(brk) == IF brk = -1 THEN WMore
                   ELSE IF brk - from = len /\ from_utf8_ok(Slice(b, from, brk))
                   THEN WDone(brk + 2)
                   ELSE WBad
    IN to(FirstBreak(b, from))

WireParseSized(b, pos, he, num) ==
    IF num.kind # "ok" THEN WBad
    ELSE IF num.val < 0 THEN WDone(he + 2)
    ELSE IF At(b, pos) = DOLLAR THEN WireParseBlob(b, he + 2, num.val)
    ELSE WireParseItems(b, num.val, he + 2)

WireParseLine(b, pos, he) ==
    IF he = -1 THEN WMore
    ELSE IF At(b, pos) # PLUS
            /\ parse_integer(Slice(b, pos + 1, he)).kind # "ok" THEN WBad
    ELSE IF he + 2 > Len(b) THEN WMore
    ELSE IF At(b, he + 1) # NEW_LINE THEN WBad
    ELSE IF At(b, pos) = PLUS
    THEN (IF memchr(NEW_LINE, Slice(b, pos + 1, he)) # -1
             \/ ~from_utf8_ok(Slice(b, pos + 1, he))
          THEN WBad
          ELSE WDone(he + 2))
    ELSE WireParseSized(b, pos, he, parse_integer(Slice(b, pos + 1, he)))

WireParse(b, pos) ==
    IF pos >= Len(b) THEN WMore
    ELSE IF At(b, pos) \notin {DOLLAR, PLUS, STAR} THEN WBad
    ELSE WireParseLine(b, pos, FieldEnd(b, pos + 1))

\* C17: decoding `*N\r\n` with N > 0 parses exactly N child expressions,
\* each starting where the previous one ended, and returns an Array of the
\* N child values in wire order, consuming through the end of the N-th
\* child (nested arrays included); if any child is incomplete the whole
\* decode returns "no value yet" with nothing consumed, and if any child is
\* malformed the whole decode returns an error.
C17_ArrayOfChildren ==
    LET array(w) ==
            /\ w.kind = "done" =>
                  /\ res.kind = "value"
                  /\ res.value.t = "Array"
                  /\ Len(res.value.items) = DeclaredSize(pre)
                  /\ Len(Consumed) = w.next
                  /\ WireEnd(pre, 0, res.value) = w.next
            /\ w.kind = "more" => (res.kind = "none" /\ buf = pre)
            /\ w.kind = "bad" => res.kind = "error"
    IN ( /\ Decoded
         /\ HasDeclaredSize(pre)
         /\ pre[1] = STAR
         /\ DeclaredSize(pre) > 0
         /\ HasBreakAt(pre, FieldEnd(pre, 1)) )
       => array(WireParse(pre, 0))

\* C18: the terminator that ends the length field of a `$` value or the
\* count field of a `*` value is checked like every other terminator: if
\* the CR ending that field is followed by a byte other than LF (for any
\* declared length or count, negative, zero or positive), decode fails with
\* WordNotEndingWithNewLine and does not return a value.
C18_HeaderTerminatorChecked ==
    ( /\ Decoded
      /\ HasDeclaredSize(pre)
      /\ FieldEnd(pre, 1) + 1 < Len(pre)
      /\ At(pre, FieldEnd(pre, 1) + 1) # NEW_LINE )
    => (res.kind = "error" /\ res.err = "WordNotEndingWithNewLine")

----------------------------------------------------------------------------
(* Length and count fields (specification SpecInt): decode is called on a  *)
(* buffer whose header field is drawn from the fields below.               *)

\* the bytes a short field is made of: `-`, `+`, `0`, `1`, `3` and a space
FieldBytes == {MINUS, PLUS, 48, 49, 51, 32}

RECURSIVE FieldsOfLen(_)
FieldsOfLen(k) ==
    IF k = 0 THEN {<<>>}
    ELSE {Append(f, c) : f \in FieldsOfLen(k - 1), c \in FieldBytes}

ShortFields == UNION {FieldsOfLen(k) : k \in 0..MaxField}

AsBytes(ds) == [i \in 1..Len(ds) |-> ds[i] + DIGIT0]

\* fields around the ends of the signed 64-bit range: the largest and the
\* smallest value, one beyond each, with a sign, with leading zeros, and a
\* number of 20 digits
LongFields ==
    { AsBytes(I64MaxDigits),
      AsBytes(I64MinDigits),
      <<MINUS>> \o AsBytes(I64MinDigits),
      <<MINUS>> \o AsBytes(I64MaxDigits),
      <<MINUS>> \o AsBytes(<<9,2,2,3,3,7,2,0,3,6,8,5,4,7,7,5,8,0,9>>),
      <<PLUS>> \o AsBytes(I64MaxDigits),
      <<PLUS>> \o AsBytes(I64MinDigits),
      AsBytes(<<0, 0>> \o I64MaxDigits),
      AsBytes(<<0, 0>> \o I64MinDigits),
      AsBytes(<<1,0,0,0,0,0,0,0,0,0,0,0,0,0,0,0,0,0,0,0>>),
      AsBytes(<<1,8,4,4,6,7,4,4,0,7,3,7,0,9,5,5,1,6,1,9>>) }

\* `$<field>\r\nabc\r\n` for every field, `*<field>\r\nabc\r\n` for the
\* short ones
FieldBuffers ==
    {<<DOLLAR>> \o f \o <<13, 10, 97, 98, 99, 13, 10>> :
        f \in ShortFields \cup LongFields}
    \cup {<<STAR>> \o f \o <<13, 10, 97, 98, 99, 13, 10>> : f \in ShortFields}

InitInt ==
    /\ buf \in FieldBuffers
    /\ pre = <<>>
    /\ res = Idle
    /\ n = 0
    /\ enc = NoEnc
    /\ cmp = NoCmp
    /\ store = EmptyMap
    /\ hist = <<>>
    /\ resp = NoResp
    /\ sent = <<>>
    /\ open = TRUE
    /\ inp = <<>>
    /\ conns = [c \in Conns |-> NewConn]
    /\ stores = [c \in Conns |-> EmptyMap]

NextInt == Decode

SpecInt == InitInt /\ [][NextInt]_vars

\* the digits ds, without leading zeros, are a number of at most `most`
AtMost(ds, most) ==
    LET m == StripZeros(ds)
    IN \/ Len(m) < Len(most)
       \/ /\ Len(m) = Len(most)
          /\ \/ m = most
             \/ \E i \in 1..Len(m) :
                    /\ m[i] < most[i]
                    /\ \A j \in 1..(i - 1) : m[j] = most[j]

\* one or more ASCII decimal digits whose value, negated if neg, fits a
\* signed 64-bit integer
DecimalInRange(neg, body) ==
    /\ Len(body) > 0
    /\ \A i \in 1..Len(body) : IsDigit(body[i])
    /\ AtMost([i \in 1..Len(body) |-> body[i] - DIGIT0],
              IF neg THEN I64MinDigits ELSE I64MaxDigits)

\* an optional leading `-` followed by digits in range
MinusOrDigits(f) ==
    IF Len(f) > 0 /\ f[1] = MINUS THEN DecimalInRange(TRUE, Tail(f))
    ELSE DecimalInRange(FALSE, f)

\* C19: parse_integer, as used for every length and count field, accepts
\* exactly an optional leading `-` followed by one or more ASCII decimal
\* digits whose value fits a signed 64-bit integer; a field with a leading
\* `+`, an empty field, a field with whitespace, or a value outside the
\* signed 64-bit range fails with IntegerParseError, so decoding
\* `$+3\r\nabc\r\n` returns IntegerParseError.
C19_IntegerFields ==
    (Decoded /\ pre \in FieldBuffers) =>
        ( (res.kind = "error" /\ res.err = "IntegerParseError")
          <=> ~MinusOrDigits(HeaderField(pre)) )

----------------------------------------------------------------------------
(* Two connections (specification SpecTwo): main spawns one task per       *)
(* accepted socket; the tasks' steps interleave in any order.              *)

\* mutant of store_of: one map serves every connection (a map created in
\* main and shared by the tasks)
store_of_shared(c) == 1

\* the map a connection's requests go to: the one its own call of
\* handle_connection created (`let mut map = HashMap::new()`)
store_of(c) == c

\* what one read may deliver on either connection: `SET a x`, `SET a y`,
\* `GET a`, and `GET a` cut in two
TwoChunks ==
    { RequestFrame(<<SET, <<97>>, <<120>>>>),
      RequestFrame(<<SET, <<97>>, <<121>>>>),
      RequestFrame(<<GET, <<97>>>>),
      <<42, 50, 13, 10, 36, 51, 13, 10, 71, 69, 84, 13, 10>>,
      <<36, 49, 13, 10, 97, 13, 10>> }

\* bytes arrive on connection c
ReceiveOn(c, chunk) ==
    /\ conns[c].open
    /\ Len(conns[c].inp) < MaxChunksEach
    /\ conns' = [conns EXCEPT ![c].buf = @ \o chunk,
                              ![c].inp = Append(@, chunk)]
    /\ UNCHANGED <<buf, pre, res, n, enc, cmp, connvars, inp, stores>>

\* one iteration of connection c's loop; a panic ends the task of c alone
\* (tokio catches the panic of a spawned task)
ServeOn(c) ==
    /\ conns[c].open
    /\ \E r \in {decode(conns[c].buf)} :
        /\ r.kind # "none"
        /\ IF r.kind = "panic"
           THEN /\ conns' = [conns EXCEPT ![c].buf = r.buf, ![c].open = FALSE]
                /\ UNCHANGED stores
           ELSE IF r.kind = "error"
           THEN /\ \E o \in {TRUE, FALSE} :
                     conns' = [conns EXCEPT ![c].buf = r.buf, ![c].open = o]
                /\ UNCHANGED stores
           ELSE IF \/ r.value.t # "Array"
                   \/ Len(r.value.items) = 0
                   \/ ~all_blob_strings(r.value.items)
           THEN /\ conns' = [conns EXCEPT ![c].buf = r.buf]
                /\ UNCHANGED stores
           ELSE
           \E commands \in {[i \in 1..Len(r.value.items) |->
                                 r.value.items[i].text]} :
           \E h \in {handle_request(commands, stores[store_of(c)])} :
              /\ conns' = [conns EXCEPT
                     ![c].buf = r.buf,
                     ![c].hist = Append(@, commands),
                     ![c].sent = IF h.kind = "ok"
                                 THEN Append(@, encode(h.value, <<>>).dst)
                                 ELSE @,
                     ![c].open = (h.kind # "panic")]
              /\ stores' = [stores EXCEPT ![store_of(c)] = h.map]
    /\ UNCHANGED <<buf, pre, res, n, enc, cmp, connvars, inp>>

NextTwo ==
    \/ \E c \in Conns : \E chunk \in TwoChunks : ReceiveOn(c, chunk)
    \/ \E c \in Conns : ServeOn(c)

SpecTwo == Init /\ [][NextTwo]_vars

RECURSIVE Concat(_)
Concat(chunks) ==
    IF Len(chunks) = 0 THEN <<>> ELSE Head(chunks) \o Concat(Tail(chunks))

\* the commands among the values: the words of every value that is a
\* request
WordsOf(values) ==
    LET requests == SelectSeq(values, IsRequest)
    IN [i \in 1..Len(requests) |->
           [j \in 1..Len(requests[i].items) |-> requests[i].items[j].text]]

IsPrefix(a, b) == Len(a) <= Len(b) /\ a = SubSeq(b, 1, Len(a))

IsSuffix(a, b) == Len(a) <= Len(b) /\ a = SubSeq(b, Len(b) - Len(a) + 1, Len(b))

\* connection c has dispatched commands that its own bytes hold, in order,
\* and once its loop waits for bytes it has dispatched all of them and its
\* buffer is what its own bytes leave over
OwnBytesOnly(c) ==
    LET own(run, waiting) ==
            /\ IsPrefix(conns[c].hist, WordsOf(run.values))
            /\ waiting => /\ conns[c].hist = WordsOf(run.values)
                          /\ conns[c].buf = run.buf
    IN /\ IsSuffix(conns[c].buf, Concat(conns[c].inp))
       /\ own(DecodeAll(Concat(conns[c].inp), <<>>),
              decode(conns[c].buf).kind = "none")

\* C20: per-connection isolation: each connection owns its accumulation
\* buffer and its key-value store, so under any interleaving of requests on
\* two concurrent connections a SET on one connection never changes the
\* result of any GET or SET on the other, and bytes arriving on one
\* connection never affect what the other decodes: what a connection
\* dispatches and buffers is determined by its own bytes, and the responses
\* it wrote are those of a map fed with its own commands alone.
C20_Isolation ==
    \A c \in Conns :
        /\ OwnBytesOnly(c)
        /\ conns[c].sent = ExpectedSent(conns[c].hist)
        /\ conns[c].open

\* C20 witness: both connections set the same key to different values and
\* then read it; each got its own value back
C20_Witness ==
    /\ conns[1].hist = << <<SET, <<97>>, <<120>>>>, <<GET, <<97>>>> >>
    /\ conns[2].hist = << <<SET, <<97>>, <<121>>>>, <<GET, <<97>>>> >>
    /\ conns[1].sent[2] = EncodedForm(BlobString(<<120>>))
    /\ conns[2].sent[2] = EncodedForm(BlobString(<<121>>))
    /\ stores[1] # stores[2]

====
